---- MODULE Spec2Model ----
(***************************************************************************)
(* A model of tonic/config.py: the Config registry, its Configurables,     *)
(* Namespaces and Instanced values.                                        *)
(*                                                                         *)
(* Strings are sequences of tokens.  A token is "@", "*", "." or a word    *)
(* (one maximal run of \w characters); "<locals>" is the marker python     *)
(* puts in the __qualname__ of a nested function.  Values are records      *)
(* tagged by kind: "int" (a plain value), "str" (a python str), "fn" (a    *)
(* callable handed to set/update), "inst" (an Instanced wrapper around the *)
(* Configurable object registered under cid c) and "ret" (what a           *)
(* registered callable returned).                                          *)
(***************************************************************************)
EXTENDS Integers, Sequences, FiniteSets, TLC

\* ------------------------------------------------------------------------
\* bounds

\* most entries in one flat config handed to set/update
MaxEntries == 2
\* calls of proxies are made while fewer than MaxCalls bodies have run
MaxCalls == 2
\* stands for sys.getrecursionlimit(): deepest nesting of remake_if_dirty
RecursionLimit == 3
\* where instanced values are followed over several calls, calls of proxies
\* are made while fewer than MaxBodies bodies have run
MaxBodies == 4

\* ------------------------------------------------------------------------
\* python values

None == [kind |-> "none"]
IntV(i) == [kind |-> "int", v |-> i]
StrV(s) == [kind |-> "str", s |-> s]
FnV(f) == [kind |-> "fn", f |-> f]
\* Instanced.__init__ : the wrapper holds a reference to one Configurable,
\* named here by the key it has in Config._configurables
Instanced(c) == [kind |-> "inst", c |-> c]

EmptyMap == [k \in {} |-> None]

\* d[k] = v of a python dict
Put(d, k, v) == [x \in (DOMAIN d) \cup {k} |-> IF x = k THEN v ELSE d[x]]

\* dict.update
DictUpdate(d, e) == [x \in (DOMAIN d) \cup (DOMAIN e) |-> IF x \in DOMAIN e THEN e[x] ELSE d[x]]

\* dict.get(k, {})
GetOrEmpty(d, k) == IF k \in DOMAIN d THEN d[k] ELSE EmptyMap

\* ------------------------------------------------------------------------
\* strings as token sequences

Keywords == {"if"}
Words == {"a", "b", "f", "g", "if", "outer", "p", "q", "x"}

GLOBAL_NAMESPACE == <<"*">>
INSTANCED_CHAR == "@"

IsWord(t) == t \in Words

\* Configurable._KEY_PATTERN : ^@?(([*][.])|(\w+[.])+)?(\w+)$
KEY_PATTERN_match(name) ==
    LET t == IF Len(name) > 0 /\ name[1] = "@" THEN Tail(name) ELSE name
    IN  \/ Len(t) = 3 /\ t[1] = "*" /\ t[2] = "." /\ IsWord(t[3])
        \/ /\ Len(t) >= 1
           /\ Len(t) % 2 = 1
           /\ \A i \in 1..Len(t) : IF i % 2 = 1 THEN IsWord(t[i]) ELSE t[i] = "."

\* str.split('.') from token i on, cur being the segment read so far
RECURSIVE split_from(_, _, _)
split_from(name, i, cur) ==
    IF i > Len(name) THEN <<cur>>
    ELSE IF name[i] = "." THEN <<cur>> \o split_from(name, i + 1, <<>>)
    ELSE split_from(name, i + 1, Append(cur, name[i]))

\* str.split('.') : the segments between the dots
split(name) == split_from(name, 1, <<>>)

\* keyword.iskeyword of one segment
iskeyword(seg) == Len(seg) = 1 /\ seg[1] \in Keywords

\* Configurable.validate_id : TRUE when the name is returned, FALSE when
\* ValueError is raised
validate_id(name) ==
    /\ KEY_PATTERN_match(name)
    /\ LET segs == split(name) IN ~ \E i \in 1..Len(segs) : iskeyword(segs[i])

\* the position of the last "." at or before token i, 0 when there is none
RECURSIVE last_dot(_, _)
last_dot(key, i) == IF i = 0 THEN 0 ELSE IF key[i] = "." THEN i ELSE last_dot(key, i - 1)

\* a split at the first dot
split_once(key) ==
    LET dots == {i \in 1..Len(key) : key[i] = "."}
        i == IF dots = {} THEN 0 ELSE CHOOSE d \in dots : \A e \in dots : d <= e
    IN  IF i = 0 THEN <<key>> ELSE <<SubSeq(key, 1, i - 1), SubSeq(key, i + 1, Len(key))>>

\* str.rsplit('.', 1) : one or two parts
rsplit(key) ==
    LET i == last_dot(key, Len(key))
    IN  IF i = 0 THEN <<key>> ELSE <<SubSeq(key, 1, i - 1), SubSeq(key, i + 1, Len(key))>>

\* str.replace('.<locals>', '')
RECURSIVE strip_locals(_)
strip_locals(s) ==
    IF Len(s) < 2 THEN s
    ELSE IF s[1] = "." /\ s[2] = "<locals>" THEN strip_locals(SubSeq(s, 3, Len(s)))
    ELSE <<s[1]>> \o strip_locals(Tail(s))

\* rank of a token in python's string order ('*' < '.' < '@' < letters)
TokRank(t) ==
    CASE t = "*" -> 0 [] t = "." -> 1 [] t = "<locals>" -> 2 [] t = "@" -> 3
      [] t = "a" -> 4 [] t = "b" -> 5 [] t = "f" -> 6 [] t = "g" -> 7
      [] t = "if" -> 8 [] t = "outer" -> 9 [] t = "p" -> 10 [] t = "q" -> 11
      [] t = "x" -> 12

\* s < t for python strings
RECURSIVE StrLess(_, _)
StrLess(s, t) ==
    IF Len(t) = 0 THEN FALSE
    ELSE IF Len(s) = 0 THEN TRUE
    ELSE IF s[1] = t[1] THEN StrLess(Tail(s), Tail(t))
    ELSE TokRank(s[1]) < TokRank(t[1])

\* sorted(S) for a set of strings
RECURSIVE sorted(_)
sorted(S) ==
    IF S = {} THEN <<>>
    ELSE LET m == CHOOSE s \in S : \A t \in S \ {s} : StrLess(s, t)
         IN  <<m>> \o sorted(S \ {m})

\* ------------------------------------------------------------------------
\* the callables of the program under configuration

Funcs == {"F", "G", "H"}

\* func.__qualname__
\*   def f(p=10, q=11)      at module level
\*   def g(x, p=20)         nested in outer()
\*   def g(q=12)            a member of a class named outer
qualname(func) ==
    CASE func = "F" -> <<"f">>
      [] func = "G" -> <<"outer", ".", "<locals>", ".", "g">>
      [] func = "H" -> <<"outer", ".", "g">>

NoDefault == [kind |-> "empty"]

\* inspect.signature(func).parameters, in declaration order
signature(func) ==
    CASE func = "F" -> <<[name |-> "p", default |-> IntV(10)], [name |-> "q", default |-> IntV(11)]>>
      [] func = "G" -> <<[name |-> "x", default |-> NoDefault], [name |-> "p", default |-> IntV(20)]>>
      [] func = "H" -> <<[name |-> "q", default |-> IntV(12)]>>

ParamNames(func) == {signature(func)[i].name : i \in 1..Len(signature(func))}

ParamOf(func, k) == signature(func)[CHOOSE i \in 1..Len(signature(func)) : signature(func)[i].name = k]

\* every parameter taken as configurable
configurable_param_names_all(func) == ParamNames(func)

\* Configurable.configurable_param_names : the parameters with a default
configurable_param_names(func) == {k \in ParamNames(func) : ParamOf(func, k).default # NoDefault}

\* Configurable.can_configure : functions, methods and classes
can_configure(obj) == obj.kind = "fn"

\* Configurable.nid_from_func; the result is validated by validate_id
nid_from_func(func) == strip_locals(qualname(func))

\* binding of a python call func(*args, **kwargs) to the signature:
\* [ok |-> TRUE, got |-> parameter -> value] or a TypeError
bind(func, args, kwargs) ==
    LET sig == signature(func)
        positional == {sig[i].name : i \in 1..Len(sig) \cap 1..Len(args)}
        PosIndex(k) == CHOOSE i \in 1..Len(sig) : sig[i].name = k
    IN  IF Len(args) > Len(sig) THEN [ok |-> FALSE, err |-> "TypeError"]
        ELSE IF \E k \in DOMAIN kwargs : k \notin ParamNames(func) THEN [ok |-> FALSE, err |-> "TypeError"]
        ELSE IF \E k \in DOMAIN kwargs : k \in positional THEN [ok |-> FALSE, err |-> "TypeError"]
        ELSE IF \E k \in ParamNames(func) :
                    k \notin positional /\ k \notin DOMAIN kwargs /\ ParamOf(func, k).default = NoDefault
             THEN [ok |-> FALSE, err |-> "TypeError"]
        ELSE [ok |-> TRUE,
              got |-> [k \in ParamNames(func) |->
                          IF k \in positional THEN args[PosIndex(k)]
                          ELSE IF k \in DOMAIN kwargs THEN kwargs[k]
                          ELSE ParamOf(func, k).default]]

\* what the body of a registered callable returns: the values its
\* parameters received, stamped with the number of this invocation
Returned(func, got, n) == [kind |-> "ret", fn |-> func, got |-> got, n |-> n]

\* ------------------------------------------------------------------------
\* outcomes of an operation: a value, or a raised exception

Ok(v) == [ok |-> TRUE, val |-> v]
Raise(e) == [ok |-> FALSE, err |-> e]

\* ------------------------------------------------------------------------
\* Instanced: conversion between the flat and the internal form

\* a conversion that wraps the cid it is given without looking it up
convert_for_load_unchecked(cfgs, key, value) ==
    IF Len(key) > 0 /\ key[1] = INSTANCED_CHAR
    THEN IF value.kind = "str" THEN Ok(<<Tail(key), Instanced(value.s)>>)
         ELSE IF can_configure(value) THEN Ok(<<Tail(key), Instanced(nid_from_func(value.f))>>)
         ELSE Raise("ValueError")
    ELSE Ok(<<key, value>>)

\* Instanced.convert_for_load : <<key, value>> or a raised KeyError/ValueError
convert_for_load(cfgs, key, value) ==
    IF Len(key) > 0 /\ key[1] = INSTANCED_CHAR
    THEN IF value.kind = "str"
         THEN IF value.s \notin DOMAIN cfgs THEN Raise("KeyError")
              ELSE Ok(<<Tail(key), Instanced(value.s)>>)
         ELSE IF can_configure(value)
         THEN IF ~validate_id(nid_from_func(value.f)) THEN Raise("ValueError")
              ELSE IF nid_from_func(value.f) \notin DOMAIN cfgs THEN Raise("KeyError")
              ELSE Ok(<<Tail(key), Instanced(nid_from_func(value.f))>>)
         ELSE Raise("ValueError")
    ELSE Ok(<<key, value>>)

\* Instanced.convert_for_save : an Instanced value is written as the
\* prefixed key and the nid of its Configurable
convert_for_save(cfgs, key, value) ==
    IF value.kind = "inst"
    THEN <<(<<INSTANCED_CHAR>> \o key), StrV(cfgs[value.c].nid)>>
    ELSE <<key, value>>

\* Config._flat_config_to_namespace_configs : a flat config is the sequence
\* of the <<key, value>> items of the dict, in iteration order
RECURSIVE flat_config_to_namespace_configs(_, _, _)
flat_config_to_namespace_configs(cfgs, flat_config, namespace_configs) ==
    IF flat_config = <<>> THEN Ok(namespace_configs)
    ELSE LET conv == convert_for_load(cfgs, Head(flat_config)[1], Head(flat_config)[2])
         IN  IF ~conv.ok THEN conv
             ELSE IF ~validate_id(conv.val[1]) THEN Raise("ValueError")
             ELSE LET parts == rsplit(conv.val[1])
                  IN  IF Len(parts) # 2 THEN Raise("ValueError")
                      ELSE LET namespace == parts[1]
                               param == parts[2]
                           IN  flat_config_to_namespace_configs(cfgs, Tail(flat_config),
                                   Put(namespace_configs, namespace,
                                       Put(GetOrEmpty(namespace_configs, namespace), param, conv.val[2])))

\* Config._namespace_configs_to_flat_config
RECURSIVE flat_of_params(_, _, _, _)
flat_of_params(cfgs, namespace, conf, names) ==
    IF names = <<>> THEN <<>>
    ELSE <<convert_for_save(cfgs, namespace \o <<".">> \o Head(names), conf[Head(names)])>>
         \o flat_of_params(cfgs, namespace, conf, Tail(names))

RECURSIVE flat_of_namespaces(_, _, _)
flat_of_namespaces(cfgs, ns_config, nss) ==
    IF nss = <<>> THEN <<>>
    ELSE flat_of_params(cfgs, Head(nss), ns_config[Head(nss)], sorted(DOMAIN ns_config[Head(nss)]))
         \o flat_of_namespaces(cfgs, ns_config, Tail(nss))

namespace_configs_to_flat_config(cfgs, ns_config) ==
    flat_of_namespaces(cfgs, ns_config, sorted(DOMAIN ns_config))

\* Config.print : the lines of the listing, one for every parameter name of
\* every Namespace, in sorted order.  A line holds the namespace, the
\* parameter, whether the namespace (is_l) and the global namespace (is_g)
\* configure it, and the value shown: none on a line commented out
RECURSIVE print_params(_, _, _, _)
print_params(namespace, configured, configured_global, params) ==
    IF params = <<>> THEN <<>>
    ELSE LET param == Head(params)
             is_l == param \in DOMAIN configured
             is_g == param \in DOMAIN configured_global
             val == IF is_l THEN configured[param] ELSE IF is_g THEN configured_global[param] ELSE None
         IN  <<[namespace |-> namespace, param |-> param[1], is_l |-> is_l, is_g |-> is_g, val |-> val]>>
             \o print_params(namespace, configured, configured_global, Tail(params))

RECURSIVE print_namespaces(_, _, _)
print_namespaces(nss, ns_configs, names) ==
    IF names = <<>> THEN <<>>
    ELSE print_params(Head(names), GetOrEmpty(ns_configs, Head(names)), GetOrEmpty(ns_configs, GLOBAL_NAMESPACE),
                      sorted({<<k>> : k \in nss[Head(names)].param_names}))
         \o print_namespaces(nss, ns_configs, Tail(names))

print(nss, ns_configs) == print_namespaces(nss, ns_configs, sorted(DOMAIN nss))

\* ------------------------------------------------------------------------
\* state

VARIABLES
    configurables,      \* Config._configurables : cid -> Configurable
    namespaces,         \* Config._namespaces : nid -> Namespace
    namespace_configs,  \* Config._namespace_configs : namespace -> param -> value
    invoked,            \* per callable, how often its body has run
    other,              \* the attributes of the program's second Config instance
    ret,                \* the last operation and what it gave back
    history             \* the latest set/update/reset calls, with their arguments

vars == <<configurables, namespaces, namespace_configs, other, invoked, ret, history>>

\* a pending map of a dirty Configurable / a bound functools.partial
Dict(d) == [kind |-> "dict", d |-> d]
Partial(kwargs) == [kind |-> "partial", kwargs |-> kwargs]

\* Configurable.__init__ : the object after construction
Configurable(func, nid, cid) ==
    [func |-> func, nid |-> nid, cid |-> cid, is_dirty |-> TRUE,
     last_ns_config |-> None, last_global_config |-> None, defaults_func |-> None]

\* a reconfigure that raises the flag and stores nothing
reconfigure_flag_only(cfgable, ns_config, global_config) ==
    [cfgable EXCEPT !.is_dirty = TRUE]

\* a reconfigure that also throws the bound callable away
reconfigure_unbinding(cfgable, ns_config, global_config) ==
    [cfgable EXCEPT !.last_ns_config = Dict(ns_config),
                    !.last_global_config = Dict(global_config),
                    !.is_dirty = TRUE,
                    !.defaults_func = None]

\* a reconfigure that stores the pending maps and leaves the flag alone
reconfigure_not_marking(cfgable, ns_config, global_config) ==
    [cfgable EXCEPT !.last_ns_config = Dict(ns_config),
                    !.last_global_config = Dict(global_config)]

\* Configurable.reconfigure
reconfigure(cfgable, ns_config, global_config) ==
    [cfgable EXCEPT !.last_ns_config = Dict(ns_config),
                    !.last_global_config = Dict(global_config),
                    !.is_dirty = TRUE]

\* a first configuration with empty maps, whatever the configuration holds
reconfigure_one_empty(cfgable, ns_configs) ==
    reconfigure(cfgable, EmptyMap, EmptyMap)

\* Config._reconfigure
reconfigure_one(cfgable, ns_configs) ==
    reconfigure(cfgable, GetOrEmpty(ns_configs, cfgable.nid), GetOrEmpty(ns_configs, GLOBAL_NAMESPACE))

\* Config._reconfigure_all
reconfigure_all(cfgs, ns_configs) ==
    [c \in DOMAIN cfgs |->
        reconfigure(cfgs[c], GetOrEmpty(ns_configs, cfgs[c].nid), GetOrEmpty(ns_configs, GLOBAL_NAMESPACE))]

\* Namespace.__init__
Namespace(nid) == [nid |-> nid, param_names |-> {}, configurables |-> EmptyMap]

\* Namespace.has_configurable
has_configurable(ns, cfgable) == cfgable.cid \in DOMAIN ns.configurables

\* a registration in which the names of the newcomer replace the set
register_configurable_replacing(ns, cfgable) ==
    [ns EXCEPT !.configurables = Put(ns.configurables, cfgable.cid, cfgable.func),
               !.param_names = configurable_param_names(cfgable.func)]

\* Namespace.register_configurable, past the has_configurable check
register_configurable(ns, cfgable) ==
    [ns EXCEPT !.configurables = Put(ns.configurables, cfgable.cid, cfgable.func),
               !.param_names = ns.param_names \cup configurable_param_names(cfgable.func)]

\* ------------------------------------------------------------------------
\* resolution and call.  The operators thread the Configurable table (tbl)
\* and the invocation counts (inv) through the nested calls and give back
\* [ok, tbl, inv, val] or [ok, tbl, inv, err].  ord is the iteration order
\* of the set configurable_param_names; depth counts the nested proxies.

Done(tbl, inv, v) == [ok |-> TRUE, tbl |-> tbl, inv |-> inv, val |-> v]
Failed(tbl, inv, e) == [ok |-> FALSE, tbl |-> tbl, inv |-> inv, err |-> e]

\* a call in which the bound keywords win over the caller's
call_partial_bound_first(tbl, inv, func, partial, args, kwargs) ==
    IF partial = None THEN Failed(tbl, inv, "TypeError")
    ELSE LET b == bind(func, args, DictUpdate(kwargs, partial.kwargs))
         IN  IF ~b.ok THEN Failed(tbl, inv, b.err)
             ELSE LET inv2 == [inv EXCEPT ![func] = @ + 1]
                  IN  Done(tbl, inv2, Returned(func, b.got, inv2[func]))

\* defaults_func(*args, **kwargs) : the call of a functools.partial
call_partial(tbl, inv, func, partial, args, kwargs) ==
    IF partial = None THEN Failed(tbl, inv, "TypeError")
    ELSE LET b == bind(func, args, DictUpdate(partial.kwargs, kwargs))
         IN  IF ~b.ok THEN Failed(tbl, inv, b.err)
             ELSE LET inv2 == [inv EXCEPT ![func] = @ + 1]
                  IN  Done(tbl, inv2, Returned(func, b.got, inv2[func]))

RECURSIVE remake_if_dirty(_, _, _, _, _, _, _)
RECURSIVE make_kwargs(_, _, _, _, _, _, _)
RECURSIVE make_kwargs_global_first(_, _, _, _, _, _, _)
RECURSIVE remake_always(_, _, _, _, _, _, _)
RECURSIVE remake_giving_up(_, _, _, _, _, _, _)
RECURSIVE remake_marking_first(_, _, _, _, _, _, _)

\* an instantiation that has a clean target resolve anew before it is called
try_instantiate_refreshing(tbl, inv, value, ord, depth) ==
    IF value.kind = "inst"
    THEN remake_if_dirty([tbl EXCEPT ![value.c] = reconfigure_one(@, namespace_configs)],
                         inv, value.c, <<>>, EmptyMap, ord, depth + 1)
    ELSE Done(tbl, inv, value)

\* an instantiation that calls the callable of the target as it was declared
try_instantiate_unconfigured(tbl, inv, value, ord, depth) ==
    IF value.kind = "inst"
    THEN call_partial(tbl, inv, tbl[value.c].func, Partial(EmptyMap), <<>>, EmptyMap)
    ELSE Done(tbl, inv, value)

\* an instantiation that hands out again what a clean target last returned
try_instantiate_memoized(tbl, inv, value, ord, depth) ==
    IF value.kind = "inst"
    THEN LET t == tbl[value.c]
             b == IF t.defaults_func = None THEN [ok |-> FALSE]
                  ELSE bind(t.func, <<>>, t.defaults_func.kwargs)
         IN  IF ~t.is_dirty /\ inv[t.func] > 0 /\ b.ok
             THEN Done(tbl, inv, Returned(t.func, b.got, inv[t.func]))
             ELSE remake_if_dirty(tbl, inv, value.c, <<>>, EmptyMap, ord, depth + 1)
    ELSE Done(tbl, inv, value)

\* Instanced.try_instantiate
try_instantiate(tbl, inv, value, ord, depth) ==
    IF value.kind = "inst"
    THEN remake_if_dirty(tbl, inv, value.c, <<>>, EmptyMap, ord, depth + 1)
    ELSE Done(tbl, inv, value)

\* the same loop with the global map consulted before the namespace's
make_kwargs_global_first(tbl, inv, c, names, kwargs, ord, depth) ==
    IF names = <<>> THEN Done(tbl, inv, kwargs)
    ELSE LET k == Head(names)
             ns_config == tbl[c].last_ns_config.d
             global_config == tbl[c].last_global_config.d
         IN  IF <<k>> \in DOMAIN ns_config \/ <<k>> \in DOMAIN global_config
             THEN LET v == IF <<k>> \in DOMAIN global_config THEN global_config[<<k>>] ELSE ns_config[<<k>>]
                      r == try_instantiate(tbl, inv, v, ord, depth)
                  IN  IF ~r.ok THEN r
                      ELSE make_kwargs_global_first(r.tbl, r.inv, c, Tail(names), Put(kwargs, k, r.val), ord, depth)
             ELSE make_kwargs_global_first(tbl, inv, c, Tail(names), kwargs, ord, depth)

\* the loop of Configurable._make_defaults_func over the names that remain
make_kwargs(tbl, inv, c, names, kwargs, ord, depth) ==
    IF names = <<>> THEN Done(tbl, inv, kwargs)
    ELSE LET k == Head(names)
             ns_config == tbl[c].last_ns_config.d
             global_config == tbl[c].last_global_config.d
         IN  IF <<k>> \in DOMAIN ns_config \/ <<k>> \in DOMAIN global_config
             THEN LET v == IF <<k>> \in DOMAIN ns_config THEN ns_config[<<k>>] ELSE global_config[<<k>>]
                      r == try_instantiate(tbl, inv, v, ord, depth)
                  IN  IF ~r.ok THEN r
                      ELSE make_kwargs(r.tbl, r.inv, c, Tail(names), Put(kwargs, k, r.val), ord, depth)
             ELSE make_kwargs(tbl, inv, c, Tail(names), kwargs, ord, depth)

\* Configurable._make_defaults_func
make_defaults_func(tbl, inv, c, ord, depth) ==
    IF tbl[c].last_ns_config = None \/ tbl[c].last_global_config = None
    THEN Failed(tbl, inv, "RuntimeError")
    ELSE LET IsConfigurable(k) == k \in configurable_param_names(tbl[c].func)
             r == make_kwargs(tbl, inv, c, SelectSeq(ord, IsConfigurable), EmptyMap, ord, depth)
         IN  IF ~r.ok THEN r ELSE Done(r.tbl, r.inv, Partial(r.val))

\* a proxy that makes the defaults anew on every call
remake_always(tbl, inv, c, args, kwargs, ord, depth) ==
    IF depth > RecursionLimit THEN Failed(tbl, inv, "RecursionError")
    ELSE IF tbl[c].last_ns_config = None /\ tbl[c].defaults_func # None
    THEN LET primed == [tbl EXCEPT ![c] = reconfigure_one(@, namespace_configs)]
             m == make_defaults_func(primed, inv, c, ord, depth)
         IN  IF ~m.ok THEN m
             ELSE LET tbl2 == [tbl EXCEPT ![c].defaults_func = m.val]
                  IN  call_partial(tbl2, m.inv, tbl2[c].func, tbl2[c].defaults_func, args, kwargs)
    ELSE LET m == make_defaults_func(tbl, inv, c, ord, depth)
         IN  IF ~m.ok THEN m
             ELSE LET tbl2 == [m.tbl EXCEPT ![c].defaults_func = m.val,
                                            ![c].is_dirty = FALSE,
                                            ![c].last_ns_config = None,
                                            ![c].last_global_config = None]
                  IN  call_partial(tbl2, m.inv, tbl2[c].func, tbl2[c].defaults_func, args, kwargs)

\* a proxy that takes the flag down before it makes the defaults
remake_marking_first(tbl, inv, c, args, kwargs, ord, depth) ==
    IF depth > RecursionLimit THEN Failed(tbl, inv, "RecursionError")
    ELSE IF tbl[c].is_dirty
    THEN LET m == make_defaults_func([tbl EXCEPT ![c].is_dirty = FALSE], inv, c, ord, depth)
         IN  IF ~m.ok THEN m
             ELSE LET tbl2 == [m.tbl EXCEPT ![c].defaults_func = m.val,
                                            ![c].last_ns_config = None,
                                            ![c].last_global_config = None]
                  IN  call_partial(tbl2, m.inv, tbl2[c].func, tbl2[c].defaults_func, args, kwargs)
    ELSE call_partial(tbl, inv, tbl[c].func, tbl[c].defaults_func, args, kwargs)

\* a proxy that hands back None where the nesting is too deep
remake_giving_up(tbl, inv, c, args, kwargs, ord, depth) ==
    IF depth > RecursionLimit THEN Done(tbl, inv, None)
    ELSE IF tbl[c].is_dirty
    THEN LET m == make_defaults_func(tbl, inv, c, ord, depth)
         IN  IF ~m.ok THEN m
             ELSE LET tbl2 == [m.tbl EXCEPT ![c].defaults_func = m.val,
                                            ![c].is_dirty = FALSE,
                                            ![c].last_ns_config = None,
                                            ![c].last_global_config = None]
                  IN  call_partial(tbl2, m.inv, tbl2[c].func, tbl2[c].defaults_func, args, kwargs)
    ELSE call_partial(tbl, inv, tbl[c].func, tbl[c].defaults_func, args, kwargs)

\* Configurable.decorated_func.remake_if_dirty : the proxy
remake_if_dirty(tbl, inv, c, args, kwargs, ord, depth) ==
    IF depth > RecursionLimit THEN Failed(tbl, inv, "RecursionError")
    ELSE IF tbl[c].is_dirty
    THEN LET m == make_defaults_func(tbl, inv, c, ord, depth)
         IN  IF ~m.ok THEN m
             ELSE LET tbl2 == [m.tbl EXCEPT ![c].defaults_func = m.val,
                                            ![c].is_dirty = FALSE,
                                            ![c].last_ns_config = None,
                                            ![c].last_global_config = None]
                  IN  call_partial(tbl2, m.inv, tbl2[c].func, tbl2[c].defaults_func, args, kwargs)
    ELSE call_partial(tbl, inv, tbl[c].func, tbl[c].defaults_func, args, kwargs)

\* Config.__init__ : the attributes of a Config after construction
Config == [configurables |-> EmptyMap, namespaces |-> EmptyMap, namespace_configs |-> EmptyMap]

Init ==
    /\ configurables = Config.configurables
    /\ namespaces = Config.namespaces
    /\ namespace_configs = Config.namespace_configs
    /\ other = Config
    /\ invoked = [f \in Funcs |-> 0]
    /\ ret = [op |-> "init"]
    /\ history = <<>>

\* ------------------------------------------------------------------------
\* inputs

\* the registrations the program makes: the object handed to the decorator
\* and the namespace and cid arguments of Config.configure (None: not given)
Registrations ==
    { [obj |-> FnV("F"), namespace |-> StrV(<<"a">>), cid |-> None],
      [obj |-> FnV("G"), namespace |-> None, cid |-> None] }

\* the items flat configs are made of: those of the runs with calls ...
GoodItems ==
    { <<(<<"a", ".", "p">>), IntV(1)>>,
      <<(<<"*", ".", "p">>), IntV(3)>>,
      <<(<<"@", "outer", ".", "g", ".", "p">>), StrV(<<"f">>)>> }

\* ... and those of the configuration changes: two parameters of the
\* global namespace, an instanced value, a key without a namespace and a
\* key with a keyword segment
FlatItems ==
    { <<(<<"*", ".", "p">>), IntV(3)>>,
      <<(<<"*", ".", "q">>), IntV(2)>>,
      <<(<<"@", "outer", ".", "g", ".", "p">>), StrV(<<"f">>)>>,
      <<(<<"p">>), IntV(1)>>,
      <<(<<"if", ".", "p">>), IntV(1)>> }

RECURSIVE SeqsUpTo(_, _)
SeqsUpTo(S, n) ==
    IF n = 0 THEN {<<>>}
    ELSE LET shorter == SeqsUpTo(S, n - 1)
         IN  shorter \cup {Append(q, e) : q \in {r \in shorter : Len(r) = n - 1}, e \in S}

\* the flat configs over a set of items: the dicts of at most MaxEntries
\* items, as the sequences of their items in iteration order
FlatConfigsOver(items) ==
    {fc \in SeqsUpTo(items, MaxEntries) :
        \A i, j \in 1..Len(fc) : i # j => fc[i][1] # fc[j][1]}

GoodFlatConfigs == FlatConfigsOver(GoodItems)
FlatConfigs == FlatConfigsOver(FlatItems)

\* the arguments of a call of a proxy
CallArgs ==
    { [args |-> <<>>, kwargs |-> EmptyMap],
      [args |-> <<IntV(7)>>, kwargs |-> EmptyMap],
      [args |-> <<>>, kwargs |-> [k \in {"p"} |-> IntV(8)]],
      [args |-> <<>>, kwargs |-> [k \in {"q"} |-> IntV(8)]],
      [args |-> <<IntV(7)>>, kwargs |-> [k \in {"p"} |-> IntV(8)]] }

\* a call without arguments
NoArgs == [args |-> <<>>, kwargs |-> EmptyMap]

ConfigurableParams == UNION {configurable_param_names(f) : f \in Funcs}

\* the orders in which a set of parameter names may be iterated
ParamOrders ==
    {o \in SeqsUpTo(ConfigurableParams, Cardinality(ConfigurableParams)) :
        /\ Len(o) = Cardinality(ConfigurableParams)
        /\ \A i, j \in 1..Len(o) : i # j => o[i] # o[j]}

\* ------------------------------------------------------------------------
\* operations

\* the ids Configurable.__init__ computes: cid first, then nid
init_ids(func, nid, cid) ==
    LET c == IF cid = None THEN nid_from_func(func) ELSE cid.s
        n == IF nid = None THEN nid_from_func(func) ELSE nid.s
    IN  IF ~validate_id(c) \/ ~validate_id(n) THEN Raise("ValueError")
        ELSE Ok(Configurable(func, n, c))

\* Config.configure(namespace, cid)(obj) / Config.configure(obj) : register
register(obj, namespace, cid) ==
    /\ IF ~can_configure(obj)
       THEN /\ ret' = [op |-> "register", ok |-> FALSE, err |-> "ValueError"]
            /\ UNCHANGED <<configurables, namespaces>>
       ELSE LET made == init_ids(obj.f, namespace, cid)
            IN  IF ~made.ok
                THEN /\ ret' = [op |-> "register", ok |-> FALSE, err |-> made.err]
                     /\ UNCHANGED <<configurables, namespaces>>
                ELSE LET cfgable == made.val
                         \* [1] register configurable to namespace
                         nss1 == IF cfgable.nid \notin DOMAIN namespaces
                                 THEN Put(namespaces, cfgable.nid, Namespace(cfgable.nid))
                                 ELSE namespaces
                     IN  IF has_configurable(nss1[cfgable.nid], cfgable)
                         THEN /\ ret' = [op |-> "register", ok |-> FALSE, err |-> "KeyError",
                                         msg |-> "Configurable already registered on namespace"]
                              /\ namespaces' = nss1
                              /\ UNCHANGED configurables
                         ELSE LET nss2 == [nss1 EXCEPT ![cfgable.nid] = register_configurable(@, cfgable)]
                              IN  \* [2] register configurable to configurables
                                  IF cfgable.cid \in DOMAIN configurables
                                  THEN /\ ret' = [op |-> "register", ok |-> FALSE, err |-> "KeyError",
                                                  msg |-> "configurable already registered"]
                                       /\ namespaces' = nss2
                                       /\ UNCHANGED configurables
                                  ELSE \* [3] configure for the first time
                                       /\ namespaces' = nss2
                                       /\ configurables' = Put(configurables, cfgable.cid,
                                                               reconfigure_one(cfgable, namespace_configs))
                                       /\ ret' = [op |-> "register", ok |-> TRUE, cid |-> cfgable.cid]
    /\ UNCHANGED <<namespace_configs, invoked, other>>

\* a merge that replaces the map of every namespace the update names
merge_replacing_namespaces(ns_configs, ns_config) ==
    [n \in (DOMAIN ns_configs) \cup (DOMAIN ns_config) |->
        IF n \in DOMAIN ns_config THEN ns_config[n] ELSE ns_configs[n]]

\* a merge that keeps only the namespaces the update names
merge_keeping_named(ns_configs, ns_config) ==
    [n \in DOMAIN ns_config |-> DictUpdate(GetOrEmpty(ns_configs, n), ns_config[n])]

\* the merge loop of Config.update
merge(ns_configs, ns_config) ==
    [n \in (DOMAIN ns_configs) \cup (DOMAIN ns_config) |->
        IF n \in DOMAIN ns_config
        THEN DictUpdate(GetOrEmpty(ns_configs, n), ns_config[n])
        ELSE ns_configs[n]]

\* a set that stores each entry as it is read, keeping those read before
\* the one that is refused
set_storing_as_read(flat_config) ==
    LET Accepted(n) == flat_config_to_namespace_configs(configurables, SubSeq(flat_config, 1, n), EmptyMap)
        n == CHOOSE i \in 0..Len(flat_config) :
                 /\ Accepted(i).ok
                 /\ i < Len(flat_config) => ~Accepted(i + 1).ok
    IN  /\ namespace_configs' = Accepted(n).val
        /\ configurables' = reconfigure_all(configurables, Accepted(n).val)
        /\ ret' = IF n = Len(flat_config) THEN [op |-> "set", ok |-> TRUE]
                  ELSE [op |-> "set", ok |-> FALSE, err |-> Accepted(n + 1).err]
        /\ UNCHANGED <<namespaces, invoked, other>>

\* a set that merges into the configuration in place
set_merging(flat_config) ==
    LET parsed == flat_config_to_namespace_configs(configurables, flat_config, EmptyMap)
    IN  /\ IF ~parsed.ok
           THEN /\ ret' = [op |-> "set", ok |-> FALSE, err |-> parsed.err]
                /\ UNCHANGED <<configurables, namespace_configs>>
           ELSE /\ namespace_configs' = merge(namespace_configs, parsed.val)
                /\ configurables' = reconfigure_all(configurables, merge(namespace_configs, parsed.val))
                /\ ret' = [op |-> "set", ok |-> TRUE]
        /\ UNCHANGED <<namespaces, invoked, other>>

\* Config.set
set(flat_config) ==
    LET parsed == flat_config_to_namespace_configs(configurables, flat_config, EmptyMap)
    IN  /\ IF ~parsed.ok
           THEN /\ ret' = [op |-> "set", ok |-> FALSE, err |-> parsed.err]
                /\ UNCHANGED <<configurables, namespace_configs>>
           ELSE /\ namespace_configs' = parsed.val
                /\ configurables' = reconfigure_all(configurables, parsed.val)
                /\ ret' = [op |-> "set", ok |-> TRUE]
        /\ UNCHANGED <<namespaces, invoked, other>>

\* an update that merges into one dict that every Config instance shares
update_shared(flat_config) ==
    LET parsed == flat_config_to_namespace_configs(configurables, flat_config, EmptyMap)
    IN  /\ IF ~parsed.ok
           THEN /\ ret' = [op |-> "update", ok |-> FALSE, err |-> parsed.err]
                /\ UNCHANGED <<configurables, namespace_configs, other>>
           ELSE /\ namespace_configs' = merge(namespace_configs, parsed.val)
                /\ other' = [other EXCEPT !.namespace_configs = merge(namespace_configs, parsed.val)]
                /\ configurables' = reconfigure_all(configurables, merge(namespace_configs, parsed.val))
                /\ ret' = [op |-> "update", ok |-> TRUE]
        /\ UNCHANGED <<namespaces, invoked>>

\* Config.update
update(flat_config) ==
    LET parsed == flat_config_to_namespace_configs(configurables, flat_config, EmptyMap)
    IN  /\ IF ~parsed.ok
           THEN /\ ret' = [op |-> "update", ok |-> FALSE, err |-> parsed.err]
                /\ UNCHANGED <<configurables, namespace_configs>>
           ELSE /\ namespace_configs' = merge(namespace_configs, parsed.val)
                /\ configurables' = reconfigure_all(configurables, merge(namespace_configs, parsed.val))
                /\ ret' = [op |-> "update", ok |-> TRUE]
        /\ UNCHANGED <<namespaces, invoked, other>>

\* a reset that marks the Configurables and keeps the configuration
reset_keeping_configuration ==
    /\ namespace_configs' = namespace_configs
    /\ configurables' = reconfigure_all(configurables, namespace_configs)
    /\ ret' = [op |-> "reset", ok |-> TRUE]
    /\ UNCHANGED <<namespaces, invoked, other>>

\* Config.reset : self.set({})
reset ==
    LET parsed == flat_config_to_namespace_configs(configurables, <<>>, EmptyMap)
    IN  /\ namespace_configs' = parsed.val
        /\ configurables' = reconfigure_all(configurables, parsed.val)
        /\ ret' = [op |-> "reset", ok |-> TRUE]
        /\ UNCHANGED <<namespaces, invoked, other>>

RECURSIVE SumOver(_, _)
SumOver(f, S) == IF S = {} THEN 0 ELSE LET x == CHOOSE y \in S : TRUE IN f[x] + SumOver(f, S \ {x})

\* how many bodies of callables have run so far
TotalInvoked == SumOver(invoked, Funcs)

\* a call after which every other Configurable is to resolve anew
invoke_marking_others(c, a, ord) ==
    /\ LET r == remake_if_dirty(configurables, invoked, c, a.args, a.kwargs, ord, 1)
       IN  /\ configurables' = [d \in DOMAIN r.tbl |->
                                   IF d = c THEN r.tbl[d] ELSE reconfigure_one(r.tbl[d], namespace_configs)]
           /\ invoked' = r.inv
           /\ ret' = IF r.ok THEN [op |-> "call", cid |-> c, arg |-> a, ok |-> TRUE, val |-> r.val]
                             ELSE [op |-> "call", cid |-> c, arg |-> a, ok |-> FALSE, err |-> r.err]
    /\ UNCHANGED <<namespaces, namespace_configs, other>>

\* a call proxy(*args, **kwargs) of the proxy a registration returned
invoke(c, a, ord) ==
    /\ LET r == remake_if_dirty(configurables, invoked, c, a.args, a.kwargs, ord, 1)
       IN  /\ configurables' = r.tbl
           /\ invoked' = r.inv
           /\ ret' = IF r.ok THEN [op |-> "call", cid |-> c, arg |-> a, ok |-> TRUE, val |-> r.val]
                             ELSE [op |-> "call", cid |-> c, arg |-> a, ok |-> FALSE, err |-> r.err]
    /\ UNCHANGED <<namespaces, namespace_configs, other>>

\* the program turns to its other Config instance: the operations that
\* follow are methods of that instance and calls of the proxies it returned
switch ==
    /\ configurables' = other.configurables
    /\ namespaces' = other.namespaces
    /\ namespace_configs' = other.namespace_configs
    /\ other' = [configurables |-> configurables, namespaces |-> namespaces,
                 namespace_configs |-> namespace_configs]
    /\ ret' = [op |-> "switch", ok |-> TRUE]
    /\ UNCHANGED invoked

\* the calls a run makes: while fewer than MaxCalls bodies have run
call(c, a, ord) == TotalInvoked < MaxCalls /\ invoke(c, a, ord)

\* ------------------------------------------------------------------------
\* the record of the latest set/update/reset calls: their arguments, their
\* outcome and the configuration they found; the latest depth of them are
\* kept, and any other operation starts the record afresh

LastN(q, n) == IF Len(q) <= n THEN q ELSE SubSeq(q, Len(q) - n + 1, Len(q))

Logged(depth, op, arg) ==
    history' = LastN(Append(history, [op |-> op, arg |-> arg, ok |-> ret'.ok, before |-> namespace_configs]),
                     depth)

NotLogged == history' = <<>>

\* ------------------------------------------------------------------------
\* specifications

\* registrations, configuration changes and calls; a reset stays on record
\* through the calls that follow it
Next ==
    \/ \E r \in Registrations : register(r.obj, r.namespace, r.cid) /\ NotLogged
    \/ \E flat_config \in GoodFlatConfigs : set(flat_config) /\ NotLogged
    \/ \E flat_config \in GoodFlatConfigs : update(flat_config) /\ NotLogged
    \/ reset /\ Logged(1, "reset", <<>>)
    \/ \E c \in DOMAIN configurables, a \in CallArgs, ord \in ParamOrders : call(c, a, ord) /\ UNCHANGED history

Spec == Init /\ [][Next]_vars

\* configuration changes over all the items, the latest one on record,
\* and a first call that leaves a cached callable behind
NextCfg ==
    \/ \E r \in {x \in Registrations : x.obj = FnV("F")} : register(r.obj, r.namespace, r.cid) /\ NotLogged
    \/ \E flat_config \in FlatConfigs : set(flat_config) /\ Logged(1, "set", flat_config)
    \/ \E flat_config \in FlatConfigs : update(flat_config) /\ Logged(1, "update", flat_config)
    \/ reset /\ Logged(1, "reset", <<>>)
    \/ \E c \in DOMAIN configurables, ord \in ParamOrders :
           TotalInvoked = 0 /\ call(c, [args |-> <<>>, kwargs |-> EmptyMap], ord) /\ NotLogged

SpecCfg == Init /\ [][NextCfg]_vars

\* configuration changes, the latest two on record
NextMerge ==
    \/ \E r \in Registrations : register(r.obj, r.namespace, r.cid) /\ NotLogged
    \/ \E flat_config \in GoodFlatConfigs : set(flat_config) /\ Logged(2, "set", flat_config)
    \/ \E flat_config \in GoodFlatConfigs : update(flat_config) /\ Logged(2, "update", flat_config)
    \/ reset /\ Logged(2, "reset", <<>>)

SpecMerge == Init /\ [][NextMerge]_vars

\* instanced values: f in namespace a, the nested g, and the member g
\* registered as b; configurations of instanced entries only; calls f()
\* and g(7)
InstRegistrations ==
    { [obj |-> FnV("F"), namespace |-> StrV(<<"a">>), cid |-> None],
      [obj |-> FnV("G"), namespace |-> None, cid |-> None],
      [obj |-> FnV("H"), namespace |-> StrV(<<"b">>), cid |-> StrV(<<"b">>)] }

InstItems ==
    { <<(<<"@", "*", ".", "p">>), StrV(<<"b">>)>>,
      <<(<<"@", "outer", ".", "g", ".", "p">>), StrV(<<"f">>)>>,
      <<(<<"@", "a", ".", "p">>), StrV(<<"outer", ".", "g">>)>>,
      <<(<<"@", "a", ".", "p">>), StrV(<<"f">>)>> }

\* dicts of at most two of them, in either order
InstFlatConfigs == {fc \in FlatConfigsOver(InstItems) : Len(fc) <= 2}

\* f() and g(7)
InstCall(c) ==
    IF configurables[c].func = "G" THEN [args |-> <<IntV(7)>>, kwargs |-> EmptyMap]
    ELSE [args |-> <<>>, kwargs |-> EmptyMap]

NextInst ==
    \/ \E r \in InstRegistrations : register(r.obj, r.namespace, r.cid) /\ NotLogged
    \/ \E flat_config \in InstFlatConfigs : set(flat_config) /\ NotLogged
    \/ \E item \in InstItems : update(<<item>>) /\ NotLogged
    \/ reset /\ NotLogged
    \/ \E c \in DOMAIN configurables, ord \in ParamOrders :
           TotalInvoked < MaxBodies /\ invoke(c, InstCall(c), ord) /\ NotLogged

SpecInst == Init /\ [][NextInst]_vars

\* names: the nested g and the member g registered without arguments, f
\* registered under explicit namespaces and cids, the latest registration on
\* record; configurations of one item
NameRegistrations ==
    { [obj |-> FnV("G"), namespace |-> None, cid |-> None],
      [obj |-> FnV("H"), namespace |-> None, cid |-> None],
      [obj |-> FnV("F"), namespace |-> StrV(<<"a">>), cid |-> StrV(<<"b">>)],
      [obj |-> FnV("F"), namespace |-> StrV(<<"@", "a", ".", "b">>), cid |-> None],
      [obj |-> FnV("F"), namespace |-> StrV(<<"*", ".", "b">>), cid |-> None],
      [obj |-> FnV("F"), namespace |-> StrV(<<"if", ".", "b">>), cid |-> None],
      [obj |-> FnV("F"), namespace |-> StrV(<<"a">>), cid |-> StrV(<<"@", "a", ".", "b">>)],
      [obj |-> FnV("F"), namespace |-> StrV(<<"a">>), cid |-> StrV(<<"*", ".", "b">>)] }

NextNames ==
    \/ \E r \in NameRegistrations : register(r.obj, r.namespace, r.cid) /\ Logged(1, "register", r)
    \/ \E item \in GoodItems : set(<<item>>) /\ NotLogged
    \/ reset /\ NotLogged

SpecNames == Init /\ [][NextNames]_vars

\* one namespace for two callables: f and the nested g registered under
\* namespace a, the latest registration on record; configurations of the
\* parameters p, q and x of that namespace; calls
ShareRegistrations ==
    { [obj |-> FnV("F"), namespace |-> StrV(<<"a">>), cid |-> None],
      [obj |-> FnV("G"), namespace |-> StrV(<<"a">>), cid |-> None] }

ShareItems ==
    { <<(<<"a", ".", "p">>), IntV(1)>>,
      <<(<<"a", ".", "q">>), IntV(2)>>,
      <<(<<"a", ".", "x">>), IntV(5)>> }

ShareFlatConfigs == FlatConfigsOver(ShareItems)

NextShare ==
    \/ \E r \in ShareRegistrations : register(r.obj, r.namespace, r.cid) /\ Logged(1, "register", r)
    \/ \E flat_config \in ShareFlatConfigs : set(flat_config) /\ NotLogged
    \/ \E flat_config \in ShareFlatConfigs : update(flat_config) /\ NotLogged
    \/ reset /\ NotLogged
    \/ \E c \in DOMAIN configurables, a \in CallArgs, ord \in ParamOrders : call(c, a, ord) /\ NotLogged

SpecShare == Init /\ [][NextShare]_vars

\* an instanced entry next to plain entries of its target: updates of one
\* item, the latest on record through the calls that follow, calls f()
\* and g(7)
NextMat ==
    \/ \E r \in Registrations : register(r.obj, r.namespace, r.cid) /\ NotLogged
    \/ \E item \in GoodItems : update(<<item>>) /\ Logged(1, "update", <<item>>)
    \/ reset /\ Logged(1, "reset", <<>>)
    \/ \E c \in DOMAIN configurables, ord \in ParamOrders :
           TotalInvoked < MaxBodies /\ invoke(c, InstCall(c), ord) /\ UNCHANGED history

SpecMat == Init /\ [][NextMat]_vars

\* a namespace and a namespace whose name continues it: f in namespace a,
\* the member g in namespace a.b; sets on record through the calls that
\* follow, calls without arguments
TreeRegistrations ==
    { [obj |-> FnV("F"), namespace |-> StrV(<<"a">>), cid |-> None],
      [obj |-> FnV("H"), namespace |-> StrV(<<"a", ".", "b">>), cid |-> None] }

TreeItems ==
    { <<(<<"a", ".", "b", ".", "q">>), IntV(2)>>,
      <<(<<"a", ".", "q">>), IntV(5)>>,
      <<(<<"*", ".", "p">>), IntV(3)>> }

TreeFlatConfigs == FlatConfigsOver(TreeItems)

NextTree ==
    \/ \E r \in TreeRegistrations : register(r.obj, r.namespace, r.cid) /\ NotLogged
    \/ \E flat_config \in TreeFlatConfigs : set(flat_config) /\ Logged(1, "set", flat_config)
    \/ \E item \in TreeItems : update(<<item>>) /\ NotLogged
    \/ reset /\ NotLogged
    \/ \E c \in DOMAIN configurables, ord \in ParamOrders : call(c, NoArgs, ord) /\ UNCHANGED history

SpecTree == Init /\ [][NextTree]_vars

\* registrations that collide: f in namespace a and again in namespace b,
\* the nested g and the member g in namespace a and again in namespace b,
\* a namespace with a keyword, and an object that is no callable
RegRegistrations ==
    { [obj |-> FnV("F"), namespace |-> StrV(<<"a">>), cid |-> None],
      [obj |-> FnV("F"), namespace |-> StrV(<<"b">>), cid |-> None],
      [obj |-> FnV("G"), namespace |-> StrV(<<"a">>), cid |-> None],
      [obj |-> FnV("H"), namespace |-> StrV(<<"a">>), cid |-> None],
      [obj |-> FnV("H"), namespace |-> StrV(<<"b">>), cid |-> None],
      [obj |-> FnV("F"), namespace |-> StrV(<<"if", ".", "b">>), cid |-> None],
      [obj |-> IntV(1), namespace |-> StrV(<<"a">>), cid |-> None] }

RegItems ==
    { <<(<<"a", ".", "p">>), IntV(1)>>,
      <<(<<"b", ".", "q">>), IntV(2)>>,
      <<(<<"*", ".", "p">>), IntV(3)>> }

RegFlatConfigs == FlatConfigsOver(RegItems)

NextReg ==
    \/ \E r \in RegRegistrations : register(r.obj, r.namespace, r.cid) /\ Logged(1, "register", r)
    \/ \E flat_config \in RegFlatConfigs : set(flat_config) /\ NotLogged
    \/ reset /\ NotLogged

SpecReg == Init /\ [][NextReg]_vars

\* a chain of instanced entries and an owner of two: g takes f, f takes
\* the member g (registered as b) for p and the nested g, whose call
\* without arguments fails, for q; calls f() and g(7)
FreshItems ==
    { <<(<<"@", "outer", ".", "g", ".", "p">>), StrV(<<"f">>)>>,
      <<(<<"@", "a", ".", "p">>), StrV(<<"b">>)>>,
      <<(<<"@", "a", ".", "q">>), StrV(<<"outer", ".", "g">>)>> }

FreshFlatConfigs == {fc \in FlatConfigsOver(FreshItems) : Len(fc) <= 2}

NextFresh ==
    \/ \E r \in InstRegistrations : register(r.obj, r.namespace, r.cid) /\ NotLogged
    \/ \E flat_config \in FreshFlatConfigs : set(flat_config) /\ NotLogged
    \/ \E item \in FreshItems : update(<<item>>) /\ NotLogged
    \/ reset /\ NotLogged
    \/ \E c \in DOMAIN configurables, ord \in ParamOrders :
           TotalInvoked < MaxBodies /\ invoke(c, InstCall(c), ord) /\ NotLogged

SpecFresh == Init /\ [][NextFresh]_vars

\* two Config instances, the same callable registered in both
TwoRegistrations == {[obj |-> FnV("F"), namespace |-> StrV(<<"a">>), cid |-> None]}
TwoItems == {<<<<"a", ".", "p">>, IntV(1)>>, <<<<"*", ".", "p">>, IntV(3)>>}
TwoFlatConfigs == {<<item>> : item \in TwoItems}

NextTwo ==
    \/ \E r \in TwoRegistrations : register(r.obj, r.namespace, r.cid) /\ NotLogged
    \/ \E fc \in TwoFlatConfigs : set(fc) /\ NotLogged
    \/ \E fc \in TwoFlatConfigs : update(fc) /\ NotLogged
    \/ reset /\ NotLogged
    \/ \E c \in DOMAIN configurables, ord \in ParamOrders : call(c, NoArgs, ord) /\ NotLogged
    \/ switch /\ NotLogged

SpecTwo == Init /\ [][NextTwo]_vars

\* ------------------------------------------------------------------------
\* properties

\* the maps the namespace of a Configurable and the global namespace hold
LocalConfig(cfgable) == GetOrEmpty(namespace_configs, cfgable.nid)
GlobalConfig == GetOrEmpty(namespace_configs, GLOBAL_NAMESPACE)

\* parameter k of a Configurable has a configured value, and which one
IsConfigured(cfgable, k) == <<k>> \in DOMAIN LocalConfig(cfgable) \/ <<k>> \in DOMAIN GlobalConfig
ConfiguredValue(cfgable, k) ==
    IF <<k>> \in DOMAIN LocalConfig(cfgable) THEN LocalConfig(cfgable)[<<k>>] ELSE GlobalConfig[<<k>>]

\* v is what a parameter receives for a stored value: the value itself, or
\* for an instanced entry what the callable of the target returned
Delivers(v, stored) ==
    IF stored.kind = "inst"
    THEN v.kind = "ret" /\ v.fn = configurables[stored.c].func
    ELSE v = stored

\* the parameters the caller supplied, positionally or by keyword
SuppliedPositionally(func, a) == {signature(func)[i].name : i \in 1..Len(signature(func)) \cap 1..Len(a.args)}
Supplied(func, a) == SuppliedPositionally(func, a) \cup DOMAIN a.kwargs

\* the last operation was a call of a proxy that returned
Called == ret.op = "call" /\ ret.ok

\* the configurable parameters the caller of the last call left out
LeftOut == configurable_param_names(ret.val.fn) \ Supplied(ret.val.fn, ret.arg)

\* C1: a configurable parameter the caller did not supply receives the
\* value of its own namespace if there is one, else the value of the global
\* namespace if there is one, else the declared default
C1_Precedence ==
    Called =>
        \A k \in LeftOut :
            LET cfgable == configurables[ret.cid]
            IN  IF <<k>> \in DOMAIN LocalConfig(cfgable)
                THEN Delivers(ret.val.got[k], LocalConfig(cfgable)[<<k>>])
                ELSE IF <<k>> \in DOMAIN GlobalConfig
                THEN Delivers(ret.val.got[k], GlobalConfig[<<k>>])
                ELSE ret.val.got[k] = ParamOf(ret.val.fn, k).default

\* a call received the value of its namespace while the global namespace
\* holds another value for the same parameter
C1_Witness ==
    /\ Called
    /\ \E k \in LeftOut :
        LET cfgable == configurables[ret.cid]
        IN  /\ <<k>> \in DOMAIN LocalConfig(cfgable)
            /\ <<k>> \in DOMAIN GlobalConfig
            /\ LocalConfig(cfgable)[<<k>>] # GlobalConfig[<<k>>]
            /\ LocalConfig(cfgable)[<<k>>].kind = "int"
            /\ ret.val.got[k] = LocalConfig(cfgable)[<<k>>]

\* C2: every Configurable is either dirty with pending maps equal to the
\* current configuration of its namespace and of the global namespace, or
\* clean with bound defaults equal to what resolving the current
\* configuration produces
C2_DirtyOrCurrent ==
    \A c \in DOMAIN configurables :
        LET cfgable == configurables[c]
        IN  IF cfgable.is_dirty
            THEN /\ cfgable.last_ns_config = Dict(LocalConfig(cfgable))
                 /\ cfgable.last_global_config = Dict(GlobalConfig)
            ELSE /\ cfgable.defaults_func.kind = "partial"
                 /\ DOMAIN cfgable.defaults_func.kwargs =
                        {k \in configurable_param_names(cfgable.func) : IsConfigured(cfgable, k)}
                 /\ \A k \in DOMAIN cfgable.defaults_func.kwargs :
                        Delivers(cfgable.defaults_func.kwargs[k], ConfiguredValue(cfgable, k))

\* a Configurable that was resolved under an earlier configuration is dirty,
\* its pending maps differing from what its cached defaults were bound from
C2_Witness ==
    \E c \in DOMAIN configurables :
        LET cfgable == configurables[c]
        IN  /\ cfgable.is_dirty
            /\ cfgable.defaults_func # None
            /\ DOMAIN cfgable.defaults_func.kwargs #
                   {k \in configurable_param_names(cfgable.func) : IsConfigured(cfgable, k)}

\* C3: a keyword argument for a configurable parameter with a configured
\* value is what the parameter receives, and the configurable parameters
\* left out still receive their configured values
C3_KeywordOverrides ==
    Called =>
        LET cfgable == configurables[ret.cid]
        IN  /\ \A k \in DOMAIN ret.arg.kwargs : ret.val.got[k] = ret.arg.kwargs[k]
            /\ \A k \in LeftOut :
                   IsConfigured(cfgable, k) => Delivers(ret.val.got[k], ConfiguredValue(cfgable, k))

\* a call overrode a configured parameter by keyword ...
C3_Witness ==
    /\ Called
    /\ \E k \in DOMAIN ret.arg.kwargs :
           /\ k \in configurable_param_names(ret.val.fn)
           /\ IsConfigured(configurables[ret.cid], k)
           /\ ConfiguredValue(configurables[ret.cid], k) # ret.arg.kwargs[k]
           /\ ret.val.got[k] = ret.arg.kwargs[k]

\* C4: a positional argument for a configurable parameter with a
\* configured value, not also given by keyword, makes the call return with
\* the parameter receiving the caller's value
C4_PositionalOverrides ==
    (/\ ret.op = "call"
     /\ \E k \in SuppliedPositionally(configurables[ret.cid].func, ret.arg) :
            /\ k \in configurable_param_names(configurables[ret.cid].func)
            /\ IsConfigured(configurables[ret.cid], k)
     /\ \A k \in DOMAIN ret.arg.kwargs :
            /\ k \in ParamNames(configurables[ret.cid].func)
            /\ k \notin SuppliedPositionally(configurables[ret.cid].func, ret.arg))
    => /\ ret.ok
       /\ \A i \in 1..Len(ret.arg.args) :
              ret.val.got[signature(ret.val.fn)[i].name] = ret.arg.args[i]

\* the latest configuration change on record, when there is one
Latest == history[Len(history)]
Changed(op) == Len(history) >= 1 /\ Latest.op = op /\ Latest.ok

\* an accepted item of a flat config: the key without its instanced mark,
\* the <<namespace, parameter>> it names and the value it stores
BareKey(item) == IF item[1][1] = "@" THEN Tail(item[1]) ELSE item[1]
ItemEntry(item) ==
    LET k == BareKey(item) IN <<SubSeq(k, 1, Len(k) - 2), <<k[Len(k)]>>>>
StoredValue(item) == IF item[1][1] = "@" THEN [kind |-> "inst", c |-> item[2].s] ELSE item[2]

\* the <<namespace, parameter>> entries of a configuration / a flat config
Entries(ns_configs) == UNION {{<<n, k>> : k \in DOMAIN ns_configs[n]} : n \in DOMAIN ns_configs}
ItemEntries(x) == {ItemEntry(x[i]) : i \in 1..Len(x)}

\* the value the items of x give entry e: that of the last item naming it
ItemValue(x, e) ==
    StoredValue(x[CHOOSE i \in 1..Len(x) :
                    /\ ItemEntry(x[i]) = e
                    /\ \A j \in (i + 1)..Len(x) : ItemEntry(x[j]) # e])

\* every Configurable is dirty, its pending maps the current configuration
AllPending ==
    \A c \in DOMAIN configurables :
        /\ configurables[c].is_dirty
        /\ configurables[c].last_ns_config = Dict(LocalConfig(configurables[c]))
        /\ configurables[c].last_global_config = Dict(GlobalConfig)

\* C5: a set or update that raises leaves the configuration, the
\* Configurables (flags and pending maps included) and the namespaces as
\* they were
C5_FailedChangesNothing ==
    [][(ret'.op \in {"set", "update"} /\ ~ret'.ok)
        => UNCHANGED <<namespace_configs, configurables, namespaces, invoked>>]_vars

\* a set or update was refused at its second item, the first being one that
\* is accepted, while a configuration was in place and a Configurable was
\* clean with defaults bound from it
C5_Witness ==
    /\ Len(history) = 1
    /\ ~Latest.ok
    /\ Len(Latest.arg) = 2
    /\ Latest.arg[1][1][1] = "*"
    /\ Latest.before # EmptyMap
    /\ namespace_configs = Latest.before
    /\ \E c \in DOMAIN configurables :
           ~configurables[c].is_dirty /\ configurables[c].defaults_func.kwargs # EmptyMap

\* C6: the flat form of the configuration is accepted by set and gives the
\* same configuration again
C6_RoundTrip ==
    LET flat == namespace_configs_to_flat_config(configurables, namespace_configs)
        back == flat_config_to_namespace_configs(configurables, flat, EmptyMap)
    IN  back.ok /\ back.val = namespace_configs

\* C7: after set(x) the configuration holds exactly the entries of x, each
\* with the value x gives it, whatever was configured before, and every
\* Configurable is dirty with that configuration pending
C7_SetReplaces ==
    Changed("set") =>
        /\ Entries(namespace_configs) = ItemEntries(Latest.arg)
        /\ \A e \in ItemEntries(Latest.arg) : namespace_configs[e[1]][e[2]] = ItemValue(Latest.arg, e)
        /\ \A n \in DOMAIN namespace_configs : namespace_configs[n] # EmptyMap
        /\ AllPending

\* a set dropped an entry that was configured before
C7_Witness ==
    /\ Changed("set")
    /\ Latest.arg # <<>>
    /\ Entries(Latest.before) \ ItemEntries(Latest.arg) # {}
    /\ configurables # EmptyMap

\* C8: after update(y) on configuration S every entry of y has the value y
\* gives it, every other entry of S keeps its value, there are no further
\* entries, and every Configurable is dirty with the result pending
C8_UpdateMerges ==
    Changed("update") =>
        /\ Entries(namespace_configs) = Entries(Latest.before) \cup ItemEntries(Latest.arg)
        /\ \A e \in ItemEntries(Latest.arg) : namespace_configs[e[1]][e[2]] = ItemValue(Latest.arg, e)
        /\ \A e \in Entries(Latest.before) \ ItemEntries(Latest.arg) :
               namespace_configs[e[1]][e[2]] = Latest.before[e[1]][e[2]]
        /\ AllPending

\* an update added a parameter to a namespace that kept another one, while
\* a namespace it did not name holds an instanced entry
C8_Witness ==
    /\ Changed("update")
    /\ \E e \in ItemEntries(Latest.arg), d \in Entries(Latest.before) \ ItemEntries(Latest.arg) :
           e[1] = d[1]
    /\ \E d \in Entries(Latest.before) :
           /\ \A e \in ItemEntries(Latest.arg) : e[1] # d[1]
           /\ Latest.before[d[1]][d[2]].kind = "inst"
    /\ configurables # EmptyMap

\* the namespaces the items of a flat config name
ItemNamespaces(x) == {e[1] : e \in ItemEntries(x)}

\* the latest two configuration changes were update(x) and then update(y),
\* both accepted, x and y naming disjoint namespaces
TwoUpdates ==
    /\ Len(history) = 2
    /\ history[1].op = "update" /\ history[1].ok
    /\ history[2].op = "update" /\ history[2].ok
    /\ ItemNamespaces(history[1].arg) \cap ItemNamespaces(history[2].arg) = {}

\* the state one set of the flat config holding the items of both x and y
\* leaves: its configuration, pending at every Configurable
AsOneSet ==
    LET both == flat_config_to_namespace_configs(configurables, history[1].arg \o history[2].arg, EmptyMap)
    IN  /\ both.ok
        /\ namespace_configs = both.val
        /\ AllPending

\* C9, as stated: update(x) then update(y), x and y naming disjoint
\* namespaces, leaves the state one set of both leaves
C9_MergeLaw == TwoUpdates => AsOneSet

\* C9, amended: the same, when update(x) was applied to the empty
\* configuration
C9_MergeLawFromEmpty == (TwoUpdates /\ history[1].before = EmptyMap) => AsOneSet

\* two updates of disjoint namespaces, neither empty, were applied to the
\* empty configuration with a Configurable registered
C9_Witness ==
    /\ TwoUpdates
    /\ history[1].before = EmptyMap
    /\ history[1].arg # <<>>
    /\ history[2].arg # <<>>
    /\ configurables # EmptyMap

\* C10: after reset the configuration is empty and every Configurable is
\* dirty with empty maps pending, and a call made after it gives every
\* configurable parameter the caller left out its declared default
C10_ResetLaw ==
    Changed("reset") =>
        /\ namespace_configs = EmptyMap
        /\ \A c \in DOMAIN configurables :
               configurables[c].is_dirty =>
                   /\ configurables[c].last_ns_config = Dict(EmptyMap)
                   /\ configurables[c].last_global_config = Dict(EmptyMap)
        /\ ret.op = "reset" => \A c \in DOMAIN configurables : configurables[c].is_dirty
        /\ Called => \A k \in LeftOut : ret.val.got[k] = ParamOf(ret.val.fn, k).default

\* a callable that had run before ran again in a call made after a reset
\* of a configuration that gave a value to a parameter the caller left out
C10_Witness ==
    /\ Changed("reset")
    /\ Called
    /\ ret.val.n = 2
    /\ \E k \in LeftOut :
           \/ <<k>> \in DOMAIN GetOrEmpty(Latest.before, configurables[ret.cid].nid)
           \/ <<k>> \in DOMAIN GetOrEmpty(Latest.before, GLOBAL_NAMESPACE)

\* parameter k of a Configurable is configured with an instanced entry, and
\* the callable of the entry's target
IsInstanced(cfgable, k) == IsConfigured(cfgable, k) /\ ConfiguredValue(cfgable, k).kind = "inst"
TargetFunc(cfgable, k) == configurables[ConfiguredValue(cfgable, k).c].func

\* C11: in a call that returns, a parameter the caller left out and that is
\* bound to an instanced entry receives, when the owner was dirty, the
\* value of one new invocation of the target, and when the owner was clean
\* the value it has cached, the target not being invoked
C11_InstancedCadence ==
    [][(ret'.op = "call" /\ ret'.ok) =>
          LET owner == configurables[ret'.cid]
          IN  \A k \in LeftOut' :
                  IsInstanced(owner, k) =>
                      LET target == TargetFunc(owner, k)
                      IN  IF owner.is_dirty
                          THEN /\ invoked'[target] = invoked[target] + 1
                               /\ ret'.val.got[k].fn = target
                               /\ ret'.val.got[k].n = invoked'[target]
                          ELSE /\ invoked'[target] = invoked[target]
                               /\ ret'.val.got[k] = owner.defaults_func.kwargs[k]]_vars

\* the body of an owner has run three times and its instanced parameter
\* holds the value of the second invocation of the target
C11_Witness ==
    /\ Called
    /\ ret.val.n = 3
    /\ \E k \in LeftOut :
           /\ IsInstanced(configurables[ret.cid], k)
           /\ ret.val.got[k].kind = "ret"
           /\ ret.val.got[k].n = 2
           /\ invoked[ret.val.got[k].fn] = 2

\* the values of instanced entries a Configurable has bound: per parameter
Materialized(cfgable) ==
    IF cfgable.defaults_func = None THEN {}
    ELSE {k \in DOMAIN cfgable.defaults_func.kwargs : cfgable.defaults_func.kwargs[k].kind = "ret"}

\* C12: the values two Configurables have bound for instanced entries are
\* the results of separate invocations, and a call that returns gives an
\* instanced parameter the caller left out the value its own Configurable
\* has bound
C12_PerConsumer ==
    /\ \A c1, c2 \in DOMAIN configurables :
           c1 # c2 =>
               \A k1 \in Materialized(configurables[c1]), k2 \in Materialized(configurables[c2]) :
                   configurables[c1].defaults_func.kwargs[k1] # configurables[c2].defaults_func.kwargs[k2]
    /\ Called =>
           \A k \in LeftOut :
               IsInstanced(configurables[ret.cid], k) =>
                   ret.val.got[k] = configurables[ret.cid].defaults_func.kwargs[k]

\* two clean Configurables hold values of the same target for a parameter
\* that one global instanced entry supplies to both, one of them having been
\* called twice
C12_Witness ==
    \E c1, c2 \in DOMAIN configurables :
        /\ c1 # c2
        /\ ~configurables[c1].is_dirty
        /\ ~configurables[c2].is_dirty
        /\ invoked[configurables[c1].func] = 2
        /\ \E k \in Materialized(configurables[c1]) \cap Materialized(configurables[c2]) :
               /\ <<k>> \notin DOMAIN LocalConfig(configurables[c1])
               /\ <<k>> \notin DOMAIN LocalConfig(configurables[c2])
               /\ GlobalConfig[<<k>>].kind = "inst"
               /\ configurables[c1].defaults_func.kwargs[k].fn = configurables[c2].defaults_func.kwargs[k].fn

\* the Configurables the instanced entries of Configurable c point at, and
\* those reached from them
Targets(c) ==
    {ConfiguredValue(configurables[c], k).c :
        k \in {j \in configurable_param_names(configurables[c].func) : IsInstanced(configurables[c], j)}}

RECURSIVE ReachWithin(_, _)
ReachWithin(S, n) ==
    IF n = 0 THEN S ELSE ReachWithin(S \cup UNION {Targets(d) : d \in S}, n - 1)

Reach(c) == ReachWithin(Targets(c), Cardinality(DOMAIN configurables))

\* the instanced entries lead from c into a cycle
LeadsToCycle(c) == \E d \in Reach(c) \cup {c} : d \in Reach(d)

Registered == Len(history) = 1 /\ Latest.op = "register"

\* C14: registering, without arguments, a callable whose derived cid is
\* held by a Configurable of another callable fails with the KeyError of the
\* Configurable table, and that Configurable stays
C14_DuplicateConfigurable ==
    (/\ Registered
     /\ Latest.arg.namespace = None
     /\ Latest.arg.cid = None
     /\ nid_from_func(Latest.arg.obj.f) \in DOMAIN configurables
     /\ configurables[nid_from_func(Latest.arg.obj.f)].func # Latest.arg.obj.f)
    => /\ ~ret.ok
       /\ ret.err = "KeyError"
       /\ ret.msg = "configurable already registered"

\* a name that is not a plain dotted identifier: it holds the instanced
\* mark, the global segment or a keyword
NotPlain(name) == \E i \in 1..Len(name) : name[i] \in {"@", "*"} \cup Keywords

\* C19: a registration with an explicit namespace or cid that is not a plain
\* dotted identifier fails with ValueError, and no Configurable and no
\* Namespace has such a name
C19_ExplicitNamesPlain ==
    /\ (/\ Registered
        /\ \/ Latest.arg.namespace # None /\ NotPlain(Latest.arg.namespace.s)
           \/ Latest.arg.cid # None /\ NotPlain(Latest.arg.cid.s))
       => ~ret.ok /\ ret.err = "ValueError"
    /\ \A c \in DOMAIN configurables : ~NotPlain(c) /\ ~NotPlain(configurables[c].nid)
    /\ \A n \in DOMAIN namespaces : ~NotPlain(n)

\* item i of flat config x is marked instanced and names, by a string, no
\* Configurable that is registered
UnknownTarget(x, i) ==
    x[i][1][1] = "@" /\ x[i][2].kind = "str" /\ x[i][2].s \notin DOMAIN configurables

\* C15: a set or update with an instanced item naming no registered
\* Configurable is refused, with KeyError when that item comes first, and
\* changes nothing; the configuration never holds an instanced entry without
\* a registered target, and a registration leaves the configuration alone
C15_FailFast ==
    /\ [](/\ (/\ Len(history) = 1
              /\ Latest.op \in {"set", "update"}
              /\ \E i \in 1..Len(Latest.arg) : UnknownTarget(Latest.arg, i))
             => /\ ~Latest.ok
                /\ UnknownTarget(Latest.arg, 1) => ret.err = "KeyError"
                /\ namespace_configs = Latest.before
          /\ \A e \in Entries(namespace_configs) :
                 namespace_configs[e[1]][e[2]].kind = "inst"
                     => namespace_configs[e[1]][e[2]].c \in DOMAIN configurables)
    /\ [][ret'.op = "register" => namespace_configs' = namespace_configs]_vars

\* a set or update was refused for its first item, an instanced one naming
\* a cid that is not registered, while a configuration was in place
C15_Witness ==
    /\ Len(history) = 1
    /\ Latest.op \in {"set", "update"}
    /\ ~Latest.ok
    /\ UnknownTarget(Latest.arg, 1)
    /\ ret.err = "KeyError"
    /\ Latest.before # EmptyMap

\* C16: a registration that succeeds leaves the new Configurable dirty with
\* the current configuration of its namespace and of the global namespace
\* pending, and a call of it that follows at once gives every configurable
\* parameter the caller left out its configured value, or its declared
\* default where there is none
C16_RegistrationPrimes ==
    /\ []((ret.op = "register" /\ ret.ok) =>
             /\ configurables[ret.cid].is_dirty
             /\ configurables[ret.cid].last_ns_config = Dict(LocalConfig(configurables[ret.cid]))
             /\ configurables[ret.cid].last_global_config = Dict(GlobalConfig))
    /\ [][(/\ ret.op = "register" /\ ret.ok
           /\ ret'.op = "call" /\ ret'.ok /\ ret'.cid = ret.cid)
          => \A k \in LeftOut' :
                 IF IsConfigured(configurables[ret.cid], k)
                 THEN Delivers(ret'.val.got[k], ConfiguredValue(configurables[ret.cid], k))
                 ELSE ret'.val.got[k] = ParamOf(ret'.val.fn, k).default]_vars

\* a Configurable was registered while its namespace and the global
\* namespace both held a value for one of its parameters
C16_Witness ==
    /\ ret.op = "register"
    /\ ret.ok
    /\ \E k \in configurable_param_names(configurables[ret.cid].func) :
           /\ <<k>> \in DOMAIN LocalConfig(configurables[ret.cid])
           /\ <<k>> \in DOMAIN GlobalConfig

\* the parameters of a callable that declare a default, and those that do not
WithDefault(func) == {k \in ParamNames(func) : ParamOf(func, k).default # NoDefault}
WithoutDefault(func) == ParamNames(func) \ WithDefault(func)

\* C17: the parameter names of a Namespace are those with a default of all
\* its members; a call that returns gives every parameter with a default
\* that the caller left out the value of the namespace, or the callable's
\* own default where the namespace has none; registering a callable whose
\* cid is free succeeds under the namespace asked for, whoever is in it
C17_SharedNamespace ==
    /\ [](/\ \A n \in DOMAIN namespaces :
                 namespaces[n].param_names =
                     UNION {WithDefault(namespaces[n].configurables[c]) : c \in DOMAIN namespaces[n].configurables}
          /\ Called =>
                 \A k \in WithDefault(ret.val.fn) \ Supplied(ret.val.fn, ret.arg) :
                     ret.val.got[k] =
                         IF <<k>> \in DOMAIN LocalConfig(configurables[ret.cid])
                         THEN LocalConfig(configurables[ret.cid])[<<k>>]
                         ELSE ParamOf(ret.val.fn, k).default)
    /\ [][(/\ ret'.op = "register"
           /\ Len(history') = 1
           /\ nid_from_func(history'[1].arg.obj.f) \notin DOMAIN configurables)
          => /\ ret'.ok
             /\ nid_from_func(history'[1].arg.obj.f) \in DOMAIN configurables'
             /\ configurables'[nid_from_func(history'[1].arg.obj.f)].nid = history'[1].arg.namespace.s]_vars

\* a call gave a parameter the value of the namespace while another
\* Configurable of the same namespace, with another default for that
\* parameter, has the same value bound
C17_Witness ==
    /\ Called
    /\ \E c2 \in DOMAIN configurables, k \in WithDefault(ret.val.fn) \ Supplied(ret.val.fn, ret.arg) :
           /\ c2 # ret.cid
           /\ configurables[c2].nid = configurables[ret.cid].nid
           /\ ~configurables[c2].is_dirty
           /\ k \in DOMAIN configurables[c2].defaults_func.kwargs
           /\ <<k>> \in DOMAIN LocalConfig(configurables[ret.cid])
           /\ ret.val.got[k] = configurables[c2].defaults_func.kwargs[k]
           /\ ParamOf(ret.val.fn, k).default # ParamOf(configurables[c2].func, k).default

\* what the caller gave parameter k
CallerValue(func, a, k) ==
    IF k \in DOMAIN a.kwargs THEN a.kwargs[k]
    ELSE a.args[CHOOSE i \in 1..Len(signature(func)) : signature(func)[i].name = k]

\* C18: the parameters a Configurable has bound are among those with a
\* default; a call that leaves out a parameter without a default fails with
\* TypeError whatever the configuration holds, and a call that returns gave
\* every such parameter the caller's value
C18_OnlyDefaultsBound ==
    /\ \A c \in DOMAIN configurables :
           configurables[c].defaults_func # None
               => DOMAIN configurables[c].defaults_func.kwargs \subseteq WithDefault(configurables[c].func)
    /\ ret.op = "call" =>
           LET func == configurables[ret.cid].func
           IN  IF WithoutDefault(func) \subseteq Supplied(func, ret.arg)
               THEN ret.ok => \A k \in WithoutDefault(func) : ret.val.got[k] = CallerValue(func, ret.arg, k)
               ELSE ~ret.ok /\ ret.err = "TypeError"

\* a call returned whose parameter without a default has an entry in the
\* namespace, next to an entry for a parameter the callable does not have
C18_Witness ==
    /\ Called
    /\ \E k \in WithoutDefault(ret.val.fn) :
           /\ <<k>> \in DOMAIN LocalConfig(configurables[ret.cid])
           /\ ret.val.got[k] # LocalConfig(configurables[ret.cid])[<<k>>]
    /\ \E e \in DOMAIN LocalConfig(configurables[ret.cid]) : e[1] \notin ParamNames(ret.val.fn)

\* the attributes of the Config instance the program is working with
Current == [configurables |-> configurables, namespaces |-> namespaces, namespace_configs |-> namespace_configs]

\* C20: a call receives the values configured in the Config that returned
\* its proxy, whatever the other Config holds; no operation on one Config
\* changes a Configurable, a Namespace or the configuration of the other,
\* and turning to the other Config finds it as it was left
C20_Independent ==
    /\ [](Called =>
              \A k \in LeftOut :
                  ret.val.got[k] = IF IsConfigured(configurables[ret.cid], k)
                                   THEN ConfiguredValue(configurables[ret.cid], k)
                                   ELSE ParamOf(ret.val.fn, k).default)
    /\ [][IF ret'.op = "switch"
          THEN /\ other' = Current
               /\ configurables' = other.configurables
               /\ namespaces' = other.namespaces
               /\ namespace_configs' = other.namespace_configs
          ELSE other' = other]_vars

\* the same callable is registered under the same cid in both Configs, the
\* proxy of the other Config has bound one configured value for a parameter
\* and a call of the proxy of this Config received another one
C20_Witness ==
    /\ Called
    /\ ret.cid \in DOMAIN other.configurables
    /\ other.configurables[ret.cid].func = ret.val.fn
    /\ ~other.configurables[ret.cid].is_dirty
    /\ \E k \in LeftOut :
           /\ IsConfigured(configurables[ret.cid], k)
           /\ <<k>> \in DOMAIN GetOrEmpty(other.namespace_configs, other.configurables[ret.cid].nid)
           /\ other.configurables[ret.cid].defaults_func.kwargs[k] # ret.val.got[k]
           /\ other.configurables[ret.cid].defaults_func.kwargs[k] # ParamOf(ret.val.fn, k).default

\* the last operation was a set, an update or a reset that succeeded
Transition(r) == r.op \in {"set", "update", "reset"} /\ r.ok

\* C21: a set, an update or a reset that succeeds leaves every registered
\* Configurable dirty, runs no callable and leaves every bound callable as
\* it was; a callable runs only in a call, and then it is the callable of the
\* Configurable called or of one its instanced entries lead to
C21_Lazy ==
    [][/\ Transition(ret') =>
              /\ invoked' = invoked
              /\ DOMAIN configurables' = DOMAIN configurables
              /\ \A c \in DOMAIN configurables :
                     /\ configurables'[c].is_dirty
                     /\ configurables'[c].defaults_func = configurables[c].defaults_func
       /\ \A f \in Funcs :
              invoked'[f] # invoked[f] =>
                  /\ ret'.op = "call"
                  /\ \E c \in Reach(ret'.cid) \cup {ret'.cid} : configurables[c].func = f]_vars

\* a set, update or reset has just succeeded, the configuration holds an
\* instanced entry whose owner is registered and was clean before, and the
\* bound callable of the owner still holds the value of the target's
\* earlier invocation
C21_Witness ==
    /\ Transition(ret)
    /\ \E c \in DOMAIN configurables :
           /\ configurables[c].is_dirty
           /\ \E k \in Materialized(configurables[c]) :
                  /\ IsInstanced(configurables[c], k)
                  /\ invoked[TargetFunc(configurables[c], k)] = configurables[c].defaults_func.kwargs[k].n

\* C22: every registered Configurable is dirty with both pending maps
\* present, or clean with a bound callable and no pending map; no call ends
\* with the RuntimeError of a resolution that found no pending map
C22_NeverUnprimed ==
    /\ \A c \in DOMAIN configurables :
           IF configurables[c].is_dirty
           THEN /\ configurables[c].last_ns_config.kind = "dict"
                /\ configurables[c].last_global_config.kind = "dict"
           ELSE /\ configurables[c].defaults_func.kind = "partial"
                /\ configurables[c].last_ns_config = None
                /\ configurables[c].last_global_config = None
    /\ (ret.op = "call" /\ ~ret.ok) => ret.err # "RuntimeError"

\* a call has failed while its Configurable was being resolved, after an
\* earlier resolution had bound a callable for it, and another Configurable
\* is clean
C22_Witness ==
    /\ ret.op = "call"
    /\ ~ret.ok
    /\ configurables[ret.cid].is_dirty
    /\ configurables[ret.cid].defaults_func # None
    /\ \E c \in DOMAIN configurables : ~configurables[c].is_dirty

\* C23: a call of a Configurable that is not dirty leaves it and every other
\* Configurable as they were, the bound callable included, runs no callable
\* but its own, and when it returns gives every configurable parameter the
\* caller left out the value that callable has bound, or the declared
\* default where it has bound none
C23_CleanCallReuses ==
    [][(ret'.op = "call" /\ ~configurables[ret'.cid].is_dirty) =>
          LET cfgable == configurables[ret'.cid]
          IN  /\ configurables' = configurables
              /\ \A f \in Funcs \ {cfgable.func} : invoked'[f] = invoked[f]
              /\ invoked'[cfgable.func] = invoked[cfgable.func] + (IF ret'.ok THEN 1 ELSE 0)
              /\ ret'.ok =>
                     \A k \in LeftOut' :
                         ret'.val.got[k] = IF k \in DOMAIN cfgable.defaults_func.kwargs
                                           THEN cfgable.defaults_func.kwargs[k]
                                           ELSE ParamOf(cfgable.func, k).default]_vars

\* the body of a callable has run for the third time, with the value of the
\* one invocation of an instanced target that its Configurable has bound
C23_Witness ==
    /\ Called
    /\ ret.val.n = 3
    /\ ~configurables[ret.cid].is_dirty
    /\ \E k \in Materialized(configurables[ret.cid]) \cap LeftOut :
           /\ ret.val.got[k] = configurables[ret.cid].defaults_func.kwargs[k]
           /\ ret.val.got[k].fn # ret.val.fn
           /\ ret.val.got[k].n = 1
           /\ invoked[ret.val.got[k].fn] = 1

\* C24: the flat form of the configuration has, for every instanced entry,
\* the item '@<namespace>.<param>' with the cid of the target as a string,
\* and for every other entry the item '<namespace>.<param>' with the value
\* of the entry, and no other item
C24_FlatNamesCid ==
    LET flat == namespace_configs_to_flat_config(configurables, namespace_configs)
        ItemOf(n, k) ==
            IF namespace_configs[n][k].kind = "inst"
            THEN <<(<<"@">> \o n \o <<".">> \o k), StrV(namespace_configs[n][k].c)>>
            ELSE <<(n \o <<".">> \o k), namespace_configs[n][k]>>
    IN  {flat[i] : i \in 1..Len(flat)} =
            UNION {{ItemOf(n, k) : k \in DOMAIN namespace_configs[n]} : n \in DOMAIN namespace_configs}

\* C25: an update leaves the entries of the namespaces it does not name as
\* they were; when a dirty Configurable is called and returns, every
\* instanced parameter the caller left out holds what the callable of the
\* target returned on a call without arguments, each parameter of the
\* target having the value of the target's namespace, else of the global
\* namespace, else its declared default, and the target is clean afterwards
C25_TargetResolved ==
    /\ [](Changed("update") =>
              \A n \in DOMAIN Latest.before \ ItemNamespaces(Latest.arg) :
                  n \in DOMAIN namespace_configs /\ namespace_configs[n] = Latest.before[n])
    /\ [][(ret'.op = "call" /\ ret'.ok /\ configurables[ret'.cid].is_dirty) =>
             \A k \in LeftOut' :
                 IsInstanced(configurables[ret'.cid], k) =>
                     LET v == ret'.val.got[k]
                         target == configurables[ConfiguredValue(configurables[ret'.cid], k).c]
                     IN  /\ v.kind = "ret"
                         /\ v.fn = target.func
                         /\ WithoutDefault(target.func) = {}
                         /\ \A j \in ParamNames(target.func) :
                                IF IsConfigured(target, j)
                                THEN Delivers(v.got[j], ConfiguredValue(target, j))
                                ELSE v.got[j] = ParamOf(target.func, j).default
                         /\ ~configurables'[target.cid].is_dirty]_vars

\* after an update of the namespace of the target alone, which found the
\* instanced entry of the owner in place, a call of the owner received what
\* the second invocation of the target returned, with the updated value
C25_Witness ==
    /\ Changed("update")
    /\ Called
    /\ \E k \in LeftOut :
           /\ IsInstanced(configurables[ret.cid], k)
           /\ configurables[ret.cid].nid \in DOMAIN Latest.before
           /\ <<k>> \in DOMAIN Latest.before[configurables[ret.cid].nid]
           /\ configurables[ret.cid].nid \notin ItemNamespaces(Latest.arg)
           /\ LET target == configurables[ConfiguredValue(configurables[ret.cid], k).c]
              IN  /\ ItemNamespaces(Latest.arg) = {target.nid}
                  /\ ret.val.got[k].n = 2
                  /\ ret.val.n = 2
                  /\ \E j \in ParamNames(target.func) :
                         /\ <<j>> \in DOMAIN LocalConfig(target)
                         /\ ret.val.got[k].got[j] = LocalConfig(target)[<<j>>]
                         /\ ret.val.got[k].got[j] # ParamOf(target.func, j).default

\* namespace m is a proper dotted prefix of namespace n
Above(m, n) == Len(m) < Len(n) /\ SubSeq(n, 1, Len(m)) = m /\ n[Len(m) + 1] = "."

\* C26: a set stores each item under the namespace that is its key up to
\* the last dot and the parameter that follows it, and nothing else; a call
\* gives a parameter that neither the namespace of the Configurable nor the
\* global namespace configures its declared default, whatever the
\* namespaces above hold, and otherwise the value of its own namespace or,
\* failing that, of the global one
C26_FlatNamespaces ==
    /\ Changed("set") =>
           /\ \A i \in 1..Len(Latest.arg) :
                  LET key == Latest.arg[i][1]
                      namespace == SubSeq(key, 1, Len(key) - 2)
                  IN  /\ namespace \in DOMAIN namespace_configs
                      /\ <<key[Len(key)]>> \in DOMAIN namespace_configs[namespace]
                      /\ namespace_configs[namespace][<<key[Len(key)]>>] = Latest.arg[i][2]
           /\ \A n \in DOMAIN namespace_configs :
                  \A k \in DOMAIN namespace_configs[n] :
                      \E i \in 1..Len(Latest.arg) : Latest.arg[i][1] = n \o <<".">> \o k
    /\ Called =>
           \A k \in LeftOut :
               ret.val.got[k] =
                   IF <<k>> \in DOMAIN LocalConfig(configurables[ret.cid])
                   THEN LocalConfig(configurables[ret.cid])[<<k>>]
                   ELSE IF <<k>> \in DOMAIN GlobalConfig THEN GlobalConfig[<<k>>]
                   ELSE ParamOf(ret.val.fn, k).default

\* a set of two keys, one continuing the namespace of the other, is on
\* record and each of the two Configurables has received its own value
C26_Witness ==
    /\ Changed("set")
    /\ Len(Latest.arg) = 2
    /\ Called
    /\ \E c \in DOMAIN configurables, k \in LeftOut :
           /\ Above(configurables[ret.cid].nid, configurables[c].nid)
           /\ ~configurables[c].is_dirty
           /\ k \in DOMAIN configurables[c].defaults_func.kwargs
           /\ <<k>> \in DOMAIN LocalConfig(configurables[ret.cid])
           /\ ret.val.got[k] = LocalConfig(configurables[ret.cid])[<<k>>]
           /\ configurables[c].defaults_func.kwargs[k] = LocalConfig(configurables[c])[<<k>>]
           /\ configurables[c].defaults_func.kwargs[k] # ret.val.got[k]

\* the parameter names the Configurables of namespace n contribute
Contributed(n) ==
    UNION {WithDefault(configurables[c].func) : c \in {d \in DOMAIN configurables : configurables[d].nid = n}}

\* C27: the listing has one line for every parameter a registered
\* Configurable contributes to its namespace and no other line; a line tells
\* 'local' exactly when the namespace configures the parameter, 'global'
\* exactly when it does not and the global namespace does, and then shows
\* the value resolution binds
C27_DescribeAgrees ==
    LET listing == print(namespaces, namespace_configs)
        lines == {listing[i] : i \in 1..Len(listing)}
    IN  /\ {<<l.namespace, l.param>> : l \in lines} =
               UNION {{<<n, k>> : k \in Contributed(n)} : n \in {configurables[c].nid : c \in DOMAIN configurables}}
        /\ \A l \in lines :
               /\ l.is_l <=> <<l.param>> \in DOMAIN GetOrEmpty(namespace_configs, l.namespace)
               /\ l.is_g <=> <<l.param>> \in DOMAIN GlobalConfig
               /\ l.is_l => l.val = namespace_configs[l.namespace][<<l.param>>]
               /\ (~l.is_l /\ l.is_g) => l.val = GlobalConfig[<<l.param>>]

\* C28: a registration that fails leaves the Configurable table and the
\* Namespace table, members and parameter names included, as they were
C28_FailedRegistration ==
    [][(ret'.op = "register" /\ ~ret'.ok) =>
          /\ configurables' = configurables
          /\ namespaces' = namespaces]_vars

\* C29: a call of a dirty Configurable with an instanced parameter that
\* fails leaves that Configurable as it was: dirty, its bound callable the
\* one it had, its pending maps the current configuration of its namespace
\* and of the global namespace
C29_FailedResolutionKeeps ==
    [][(/\ ret'.op = "call"
        /\ ~ret'.ok
        /\ configurables[ret'.cid].is_dirty
        /\ \E k \in configurable_param_names(configurables[ret'.cid].func) :
               IsInstanced(configurables[ret'.cid], k))
       => /\ configurables'[ret'.cid] = configurables[ret'.cid]
          /\ configurables'[ret'.cid].is_dirty
          /\ configurables'[ret'.cid].last_ns_config = Dict(LocalConfig(configurables[ret'.cid]))
          /\ configurables'[ret'.cid].last_global_config = Dict(GlobalConfig)]_vars

\* a call has failed with the TypeError of the call of its instanced target,
\* which the call resolved and left clean; the Configurable called is dirty
\* and still has the callable an earlier resolution bound
C29_Witness ==
    /\ ret.op = "call"
    /\ ~ret.ok
    /\ ret.err = "TypeError"
    /\ configurables[ret.cid].is_dirty
    /\ configurables[ret.cid].defaults_func # None
    /\ configurables[ret.cid].last_ns_config = Dict(LocalConfig(configurables[ret.cid]))
    /\ \E k \in configurable_param_names(configurables[ret.cid].func) :
           /\ IsInstanced(configurables[ret.cid], k)
           /\ ~configurables[ConfiguredValue(configurables[ret.cid], k).c].is_dirty
           /\ WithoutDefault(TargetFunc(configurables[ret.cid], k)) # {}

\* C30: a call leaves the configuration, the Namespace table and the cids of
\* the Configurable table as they were; it changes no Configurable when the
\* one called is clean, and when it is dirty none but the one called and
\* those its instanced entries lead to, whose callable and names stay
C30_CallFrame ==
    [][ret'.op = "call" =>
          /\ namespace_configs' = namespace_configs
          /\ namespaces' = namespaces
          /\ DOMAIN configurables' = DOMAIN configurables
          /\ \A c \in DOMAIN configurables :
                 /\ configurables'[c].func = configurables[c].func
                 /\ configurables'[c].nid = configurables[c].nid
                 /\ configurables'[c].cid = configurables[c].cid
                 /\ configurables'[c] # configurables[c] =>
                        /\ configurables[ret'.cid].is_dirty
                        /\ c \in Reach(ret'.cid) \cup {ret'.cid}]_vars

\* a call has returned that left the Configurable called and the target of
\* its instanced entry clean, while a third Configurable, which the entries
\* do not lead to, is clean from a call of its own
C30_Witness ==
    /\ Called
    /\ \E t \in Reach(ret.cid) \ {ret.cid}, c \in DOMAIN configurables \ (Reach(ret.cid) \cup {ret.cid}) :
           /\ ~configurables[t].is_dirty
           /\ ~configurables[ret.cid].is_dirty
           /\ ~configurables[c].is_dirty
           /\ invoked[configurables[t].func] >= 1
           /\ invoked[configurables[c].func] >= 1

\* the instanced parameters of Configurable c whose target is another
\* callable, and the step has run the callable of one of them
InstancedParams(c) ==
    {k \in configurable_param_names(configurables[c].func) :
        IsInstanced(configurables[c], k) /\ TargetFunc(configurables[c], k) # configurables[c].func}
TargetRan(c) ==
    \E k \in InstancedParams(c) :
        invoked'[TargetFunc(configurables[c], k)] > invoked[TargetFunc(configurables[c], k)]

\* a dirty Configurable is called and returns: an instanced parameter the
\* caller left out, whose target was clean, holds what a new invocation of
\* the target returned with the values the target had bound, and the
\* target is as it was
StaleTarget ==
    (ret'.op = "call" /\ ret'.ok /\ configurables[ret'.cid].is_dirty) =>
        \A k \in LeftOut' :
            IsInstanced(configurables[ret'.cid], k) =>
                LET target == configurables[ConfiguredValue(configurables[ret'.cid], k).c]
                    v == ret'.val.got[k]
                IN  ~target.is_dirty =>
                        /\ configurables'[target.cid] = target
                        /\ v.kind = "ret"
                        /\ v.fn = target.func
                        /\ v.n > invoked[target.func]
                        /\ \A j \in DOMAIN target.defaults_func.kwargs :
                               v.got[j] = target.defaults_func.kwargs[j]

\* a call of a clean Configurable runs the callable of none of its targets
CleanRunsNoTarget ==
    (ret'.op = "call" /\ ~configurables[ret'.cid].is_dirty) => ~TargetRan(ret'.cid)

\* C31, as stated: a clean target is invoked again and not resolved again,
\* and a call in which the callable of a target of the Configurable called
\* has run leaves that Configurable clean, so that no later call before the
\* next set, update or reset runs a target for it again
C31_OncePerGeneration ==
    [][/\ StaleTarget
       /\ CleanRunsNoTarget
       /\ (ret'.op = "call" /\ TargetRan(ret'.cid)) => ~configurables'[ret'.cid].is_dirty]_vars

\* C31, amended: a clean target is invoked again and not resolved again; a
\* call that returns after the callable of a target has run leaves the
\* Configurable called clean with the values of its instanced parameters
\* bound, and a call that fails while the Configurable is resolved leaves
\* it dirty with nothing new bound, whatever targets have run
C31_OncePerResolution ==
    [][/\ StaleTarget
       /\ CleanRunsNoTarget
       /\ (ret'.op = "call" /\ TargetRan(ret'.cid)) =>
              IF ret'.ok
              THEN /\ ~configurables'[ret'.cid].is_dirty
                   /\ \A k \in InstancedParams(ret'.cid) \cap LeftOut' :
                          configurables'[ret'.cid].defaults_func.kwargs[k] = ret'.val.got[k]
              ELSE /\ configurables'[ret'.cid].is_dirty
                   /\ configurables'[ret'.cid].defaults_func = configurables[ret'.cid].defaults_func]_vars

\* a call of an owner has returned with what the second invocation of its
\* target returned, and in it the value of the one invocation of the
\* target's own target, which the target, still clean, has bound
C31_Witness ==
    /\ Called
    /\ \E k \in LeftOut :
           /\ IsInstanced(configurables[ret.cid], k)
           /\ LET target == configurables[ConfiguredValue(configurables[ret.cid], k).c]
              IN  /\ ~target.is_dirty
                  /\ ret.val.got[k].n = 2
                  /\ \E j \in Materialized(target) :
                         /\ ret.val.got[k].got[j] = target.defaults_func.kwargs[j]
                         /\ ret.val.got[k].got[j].n = 1
                         /\ invoked[ret.val.got[k].got[j].fn] = 1
                         /\ ret.val.got[k].got[j].fn # ret.val.fn

====
